---------------------------- MODULE Spec2Model ----------------------------
(***************************************************************************)
(* Model of fs/operations/multithread.go: the multi-thread copy of one     *)
(* source object into a destination through a chunk writer.                *)
(*                                                                         *)
(* One behaviour is one invocation of multiThreadCopy.  The coordinator   *)
(* goroutine is followed by pc; the chunk copiers started by g.Go are the  *)
(* members of running.  The backend (openChunkWriter, WriteChunk, Close,   *)
(* Abort, NewObject, SetModTime, the source's Open) is the environment:    *)
(* each call returns success or an error nondeterministically.  The        *)
(* errgroup (golang.org/x/sync/errgroup) and atexit.OnError are modelled   *)
(* by their documented behaviour at the lines that call them.              *)
(***************************************************************************)
EXTENDS Integers, Sequences, FiniteSets, TLC

\* ---------------------------------------------------------------- bounds
MaxSize == 3          \* source sizes are drawn from -1..MaxSize
MaxChunkSize == 3     \* backend/configured chunk sizes are 1..MaxChunkSize
MaxStreams == 3       \* requested and backend concurrency are 0..MaxStreams

VARIABLES
    \* inputs of the invocation
    srcSize,          \* src.Size()
    dstKind,          \* which of OpenChunkWriter / OpenWriterAt f has
    streams,          \* the concurrency argument as passed by the caller
    MultiThreadSet,   \* ci.MultiThreadSet
    PartialUploads,   \* f.Features().PartialUploads
    \* coordinator locals
    pc,               \* position of the coordinator in multiThreadCopy
    noseek,           \* local noseek
    info,             \* fs.ChunkWriterInfo returned by openChunkWriter
    w,                \* the writerAtChunkWriter fields (adapter path)
    concurrency,      \* local concurrency (planned after the planner ran)
    mc,               \* multiThreadCopyState
    chunk,            \* loop variable of the spawn loop
    err,              \* named result err
    newDst,           \* named result newDst: TRUE iff an object is returned
    \* contexts and errgroup
    ctxDone,          \* the caller's ctx is cancelled
    uploadDone,       \* uploadCtx/gCtx cancelled by cancel() or the errgroup
    gErr,             \* errgroup's first error
    running,          \* chunk copiers started and not yet returned
    \* observations of the calls made (history)
    spawnLog,         \* chunk indices handed to g.Go, in order
    written,          \* chunks whose WriteChunk returned success
    failed,           \* chunks whose copier returned an error
    firstFailed,      \* index of the first copier that returned an error
    lateSpawns,       \* copiers started after a copier had failed
    waitingAtFail,    \* the chunk g.Go was waiting to start at the first
                      \* failure, or -1
    opened,           \* openChunkWriter returned a writer
    closeCalls, closeErr, abortCalls, abortFailed, newObjectCalls,
    setModTimeCalls,
    openCalls,        \* calls of openChunkWriter
    modTimeResult,    \* what obj.SetModTime returned, "" if not called
    readModes,        \* the read strategies the copiers used
    faulted,          \* copiers that met an I/O fault
    bytesWritten,     \* sum of the byte counts WriteChunk returned
    dst,              \* the destination object: "none", "partial",
                      \* "committed" or "removed"
    \* the adapter's WriteChunk calls, one write at a time
    wc,               \* per chunk index: the call's io.Copy count, buffer
                      \* fill, offsetWriter cursor and result
    writeLog          \* the bytes WriteAt wrote: <<chunk, offset>> pairs

vars == <<srcSize, dstKind, streams, MultiThreadSet, PartialUploads, pc,
          noseek, info, w, concurrency, mc, chunk, err, newDst, ctxDone,
          uploadDone, gErr, running, spawnLog, written, failed, firstFailed,
          lateSpawns, waitingAtFail, opened, closeCalls, closeErr, abortCalls,
          abortFailed, newObjectCalls, setModTimeCalls, openCalls,
          modTimeResult, readModes, faulted, bytesWritten, dst, wc,
          writeLog>>

\* ---------------------------------------------------------------- errors
NoErr == [kind |-> "nil", chunk |-> -1]
ChunkErr(i) == [kind |-> "chunk", chunk |-> i]
Err(k) == [kind |-> k, chunk |-> -1]

Min(a, b) == IF a < b THEN a ELSE b

\* ----------------------------------------------------- pure computations
\* Mutation of calculateNumChunks: the remainder gets no chunk.
calculateNumChunks_NoRoundUp(size, chunkSize) == size \div chunkSize

\* calculateNumChunks: integer division, one more chunk for a remainder.
calculateNumChunks(size, chunkSize) ==
    IF size % chunkSize # 0 THEN (size \div chunkSize) + 1
                            ELSE size \div chunkSize

\* multiThreadCopy lines 170-173: a chunk size bigger than the source is
\* capped to the source size.
CapChunkSize(chunkSize, size) == IF chunkSize > size THEN size ELSE chunkSize

\* multiThreadCopy lines 176-179: no more streams than chunks.
ClampToChunks(c, numChunks) == IF c > numChunks THEN numChunks ELSE c

\* Mutation of UseBackendConcurrency: MultiThreadSet is not looked at.
UseBackendConcurrency_OnlyIfHigher(set, backend, c) == backend > c

\* multiThreadCopy lines 181-185: c is the concurrency after the clamp.
UseBackendConcurrency(set, backend, c) == (~set) \/ backend > c

\* Mutation of FloorAtOne: a concurrency of 0 is passed on.
FloorAtOne_None(c) == c

\* multiThreadCopy lines 186-188.
FloorAtOne(c) == IF c < 1 THEN 1 ELSE c

\* multiThreadCopy lines 175-188: the concurrency given to g.SetLimit.
PlanConcurrency(requested, numChunks, backend, set) ==
    LET clamped == ClampToChunks(requested, numChunks)
        chosen  == IF UseBackendConcurrency(set, backend, clamped)
                       THEN backend ELSE clamped
    IN  FloorAtOne(chosen)

\* copyChunk lines 72-80: the byte range [start, end) of a chunk.
ChunkStart(m, i) == i * m.partSize
ChunkEnd(m, i) == Min(ChunkStart(m, i) + m.partSize, m.size)
ChunkBytes(m, i) == ChunkEnd(m, i) - ChunkStart(m, i)
ChunkSkipped(m, i) == ChunkStart(m, i) >= m.size

\* Mutation of bytesToWrite: the last chunk is expected in full.
bytesToWrite_AlwaysFull(wr, chunkNumber) == wr.chunkSize

\* writerAtChunkWriter.WriteChunk lines 280-283: the byte count expected.
bytesToWrite(wr, chunkNumber) ==
    IF chunkNumber = wr.chunks - 1 /\ wr.size % wr.chunkSize # 0
        THEN wr.size % wr.chunkSize
        ELSE wr.chunkSize

\* ------------------------------------------------------------ zero values
NoInfo == [ChunkSize |-> 0, Concurrency |-> 0, LeavePartsOnError |-> FALSE]
NoWriter == [size |-> 0, chunkSize |-> 0, chunks |-> 0, writeBufferSize |-> 0]
NoState == [size |-> 0, partSize |-> 0, numChunks |-> 0, noSeek |-> FALSE]

\* The chunk indices there can be: a chunk holds at least one byte.
ChunkIds == 0..(MaxSize - 1)

\* A WriteChunk call of the adapter that has not been made.
NoCall == [state |-> "idle", n |-> 0, buf |-> 0, off |-> 0,
           copyErr |-> FALSE, flushErr |-> FALSE, result |-> -2]

\* gCtx.Err() != nil: gCtx is a child of uploadCtx, itself a child of ctx.
gCtxErr == ctxDone \/ uploadDone

\* Mutation of errOnce: a later error replaces the first.
errOnce_Last(g, e) == e

\* errgroup: the first error returned by a function passed to Go is kept.
errOnce(g, e) == IF g = NoErr THEN e ELSE g

\* Mutation of AfterClose: the error of Close is dropped.
AfterClose_IgnoreClose(waitErr, cErr) == waitErr

\* multiThreadCopy lines 219-224: what is returned once Wait and Close have
\* returned; NoErr means the function goes on to NewObject.
AfterClose(waitErr, cErr) ==
    IF waitErr # NoErr THEN waitErr
    ELSE IF cErr # NoErr THEN Err("close")
    ELSE NoErr

\* atexit.OnError(&err, fn): the function it returns, deferred, runs fn when
\* the invocation returns with err set.
OnError(e) == e # NoErr

\* Mutation of AbortWanted: only a chunk failure leads to Abort.
AbortWanted_ChunkOnly(e, leave) == e.kind = "chunk" /\ ~leave

\* Mutation of AbortWanted: LeavePartsOnError is not looked at.
AbortWanted_IgnoreLeave(e, leave) == e # NoErr

\* multiThreadCopy lines 158-162: the deferred handler calls Abort.
AbortWanted(e, leave) == OnError(e) /\ ~leave

\* Mutation of FailFast: the loop never looks at the context.
FailFast_Never(cancelled) == FALSE

\* multiThreadCopy line 208: the spawn loop stops.
FailFast(cancelled) == cancelled

\* Mutation of SlotFree: the group has no limit.
SlotFree_Unbounded(active, limit) == TRUE

\* g.SetLimit(concurrency): g.Go blocks while the pool is full.
SlotFree(active, limit) == Cardinality(active) < limit

\* --------------------------------------------------------------- initial
Init ==
    /\ srcSize \in -1..MaxSize
    /\ dstKind \in {"chunkwriter", "writerat", "none"}
    /\ streams \in 0..MaxStreams
    /\ MultiThreadSet \in BOOLEAN
    /\ PartialUploads \in BOOLEAN
    /\ pc = "dispatch"
    /\ noseek = FALSE
    /\ info = NoInfo
    /\ w = NoWriter
    /\ concurrency = streams
    /\ mc = NoState
    /\ chunk = 0
    /\ err = NoErr
    /\ newDst = FALSE
    /\ ctxDone = FALSE
    /\ uploadDone = FALSE
    /\ gErr = NoErr
    /\ running = {}
    /\ spawnLog = <<>>
    /\ written = {}
    /\ failed = {}
    /\ firstFailed = -1
    /\ lateSpawns = {}
    /\ waitingAtFail = -1
    /\ opened = FALSE
    /\ closeCalls = 0
    /\ closeErr = NoErr
    /\ abortCalls = 0
    /\ abortFailed = FALSE
    /\ newObjectCalls = 0
    /\ setModTimeCalls = 0
    /\ openCalls = 0
    /\ modTimeResult = ""
    /\ readModes = {}
    /\ faulted = {}
    /\ bytesWritten = 0
    /\ dst = "none"
    /\ wc = [i \in ChunkIds |-> NoCall]
    /\ writeLog = {}

inputs == <<srcSize, dstKind, streams, MultiThreadSet, PartialUploads>>
group == <<gErr, running, spawnLog, written, failed, firstFailed, lateSpawns,
           waitingAtFail>>
calls == <<closeCalls, closeErr, abortCalls, abortFailed, newObjectCalls,
           setModTimeCalls>>
copied == <<readModes, faulted, bytesWritten>>
obs == <<openCalls, modTimeResult, dst>>
adapter == <<wc, writeLog>>

\* -------------------------------------------------------------- Planning
\* Mutation of NoSeek: the direct read is chosen for the native writer.
NoSeek_Native(kind) == kind = "chunkwriter"

\* multiThreadCopy lines 133-142: noseek is set when the chunk writer is the
\* adapter made from OpenWriterAt.
NoSeek(kind) == kind = "writerat"

\* The values of ci.MultiThreadWriteBufferSize: no buffer, or a buffer.
WriteBufferSizes == {0, 1}

\* multiThreadCopy lines 131-142: pick the chunk writer constructor.
Dispatch ==
    /\ pc = "dispatch"
    /\ IF dstKind = "none"
          THEN /\ err' = Err("unsupported")
               /\ pc' = "done"
               /\ noseek' = noseek
          ELSE /\ noseek' = NoSeek(dstKind)
               /\ pc' = "validate"
               /\ err' = err
    /\ UNCHANGED <<adapter, inputs, info, w, concurrency, mc, chunk, newDst, ctxDone,
                   uploadDone, group, opened, calls,
                   copied, obs>>

\* Mutation of SizeError: only the unknown size is rejected.
SizeError_ZeroAllowed(size) ==
    IF size < 0 THEN Err("unknown size") ELSE NoErr

\* multiThreadCopy lines 144-149: the error for an unknown or a zero size.
SizeError(size) ==
    IF size < 0 THEN Err("unknown size")
    ELSE IF size = 0 THEN Err("zero size")
    ELSE NoErr

\* multiThreadCopy lines 144-149: unknown and zero sizes are rejected.
ValidateSize ==
    /\ pc = "validate"
    /\ err' = SizeError(srcSize)
    /\ pc' = IF err' # NoErr THEN "done" ELSE "open"
    /\ UNCHANGED <<adapter, inputs, noseek, info, w, concurrency, mc, chunk, newDst,
                   ctxDone, uploadDone, group, opened, calls,
                   copied, obs>>

\* multiThreadCopy lines 151-154.  A native OpenChunkWriter returns an Info
\* of its own; openChunkWriterFromOpenWriterAt (lines 322-350) builds the
\* adapter with the configured chunk size and stream count.
OpenChunkWriter ==
    /\ pc = "open"
    /\ openCalls' = openCalls + 1
    /\ \/ /\ err' = Err("open chunk writer")
          /\ pc' = "done"
          /\ UNCHANGED <<info, w, opened, dst>>
       \/ /\ dstKind = "chunkwriter"
          /\ \E cs \in 1..MaxChunkSize, c \in 0..MaxStreams, l \in BOOLEAN :
                info' = [ChunkSize |-> cs, Concurrency |-> c,
                         LeavePartsOnError |-> l]
          /\ w' = w
          /\ opened' = TRUE
          /\ dst' = "partial"
          /\ pc' = "plan"
          /\ err' = err
       \/ /\ dstKind = "writerat"
          /\ \E chunkSize \in 1..MaxChunkSize, ciStreams \in 0..MaxStreams,
                writeBufferSize \in WriteBufferSizes :
                /\ w' = [size |-> srcSize, chunkSize |-> chunkSize,
                         chunks |-> calculateNumChunks(srcSize, chunkSize),
                         writeBufferSize |-> writeBufferSize]
                /\ info' = [ChunkSize |-> chunkSize,
                            Concurrency |-> ciStreams,
                            LeavePartsOnError |-> FALSE]
          /\ opened' = TRUE
          /\ dst' = "partial"
          /\ pc' = "plan"
          /\ err' = err
    /\ UNCHANGED <<adapter, inputs, noseek, concurrency, mc, chunk, newDst, ctxDone,
                   uploadDone, group, calls,
                   copied, modTimeResult>>

\* multiThreadCopy lines 156-205: register the deferred handler, run the
\* planner, set the pool limit and build the copy state.
Plan ==
    /\ pc = "plan"
    /\ LET cs == CapChunkSize(info.ChunkSize, srcSize)
           numChunks == calculateNumChunks(srcSize, cs)
       IN  /\ info' = [info EXCEPT !.ChunkSize = cs]
           /\ concurrency' = PlanConcurrency(concurrency, numChunks,
                                             info.Concurrency, MultiThreadSet)
           /\ mc' = [size |-> srcSize, partSize |-> cs,
                     numChunks |-> numChunks, noSeek |-> noseek]
    /\ chunk' = 0
    /\ pc' = "loop"
    /\ UNCHANGED <<adapter, inputs, noseek, w, err, newDst, ctxDone, uploadDone,
                   group, opened, calls,
                   copied, obs>>

\* --------------------------------------------------------------- Running
\* multiThreadCopy lines 206-210: loop condition and fail-fast check.
LoopCheck ==
    /\ pc = "loop"
    /\ pc' = IF chunk < mc.numChunks /\ ~FailFast(gCtxErr) THEN "go"
                                                          ELSE "wait"
    /\ UNCHANGED <<adapter, inputs, noseek, info, w, concurrency, mc, chunk, err,
                   newDst, ctxDone, uploadDone, group, opened, calls,
                   copied, obs>>

\* multiThreadCopy lines 211-215: g.Go waits for a pool slot, starts the
\* copier of this chunk, and the loop moves on to the next index.
Go ==
    /\ pc = "go"
    /\ SlotFree(running, concurrency)
    /\ running' = running \cup {chunk}
    /\ spawnLog' = Append(spawnLog, chunk)
    /\ lateSpawns' = IF failed # {} THEN lateSpawns \cup {chunk}
                                    ELSE lateSpawns
    /\ chunk' = chunk + 1
    /\ pc' = "loop"
    /\ UNCHANGED <<adapter, inputs, noseek, info, w, concurrency, mc, err, newDst,
                   ctxDone, uploadDone, gErr, written, failed, firstFailed,
                   waitingAtFail, opened, calls,
                   copied, obs>>

\* What can go wrong in one copier: the ranged Open fails, the read fails,
\* the source ends one byte early, the write fails, or the flush of the
\* adapter's write buffer fails.
Faults == {"none", "open", "read", "short", "write", "flush"}

\* A flush can only fail where there is one: on the adapter with a buffer.
FaultsOf(kind, wr) ==
    IF kind = "writerat" /\ wr.writeBufferSize > 0 THEN Faults
                                                  ELSE Faults \ {"flush"}

\* copyChunk lines 90-106: the read strategy.
ReadMode(m) == IF m.noSeek THEN "direct" ELSE "buffered"

\* copyChunk lines 84-106: the bytes the reader handed to WriteChunk will
\* deliver, or -1 when copyChunk returns an error before WriteChunk.
Delivered(m, i, fault) ==
    IF fault = "open" THEN -1
    ELSE IF m.noSeek
        THEN (IF fault = "short" THEN ChunkBytes(m, i) - 1
                                 ELSE ChunkBytes(m, i))
        ELSE (IF fault \in {"read", "short"} THEN -1 ELSE ChunkBytes(m, i))

\* Mutation of WriteChunk: the byte count is not compared.
WriteChunk_NoCount(wr, chunkNumber, n, copyErr, flushErr) ==
    IF copyErr THEN -1
    ELSE IF wr.writeBufferSize > 0 /\ flushErr THEN -1
    ELSE n

\* writerAtChunkWriter.WriteChunk lines 277-305, n being the bytes io.Copy
\* copied: the byte count returned, or -1 for an error.
WriteChunk(wr, chunkNumber, n, copyErr, flushErr) ==
    IF copyErr THEN -1
    ELSE IF n # bytesToWrite(wr, chunkNumber) THEN -1
    ELSE IF wr.writeBufferSize > 0 /\ flushErr THEN -1
    ELSE n

\* WriteChunk of either writer on a reader that delivers n bytes: TRUE iff
\* it returns no error.  A native writer fails as its backend decides.
WriteChunkOK(kind, wr, noSeek, i, n, fault) ==
    LET copyErr == fault = "write" \/ (noSeek /\ fault = "read") IN
    IF kind = "writerat" THEN WriteChunk(wr, i, n, copyErr, fault = "flush") >= 0
                         ELSE ~copyErr

\* copyChunk lines 66-116: "skip" (no I/O), "ok" or "fail".
copyChunk(m, kind, wr, i, fault) ==
    IF ChunkSkipped(m, i) THEN "skip"
    ELSE IF Delivered(m, i, fault) < 0 THEN "fail"
    ELSE IF WriteChunkOK(kind, wr, m.noSeek, i, Delivered(m, i, fault), fault)
        THEN "ok"
    ELSE "fail"

\* One copier runs to its return (lines 212-214); the errgroup records the
\* first error, cancels gCtx on it and frees the pool slot.
CopyChunk(i) ==
    /\ i \in running
    /\ \E fault \in FaultsOf(dstKind, w) :
        LET r == copyChunk(mc, dstKind, w, i, fault) IN
        /\ written' = IF r = "ok" THEN written \cup {i} ELSE written
        /\ failed' = IF r = "fail" THEN failed \cup {i} ELSE failed
        /\ gErr' = IF r = "fail" THEN errOnce(gErr, ChunkErr(i)) ELSE gErr
        /\ uploadDone' = (uploadDone \/ r = "fail")
        /\ firstFailed' = IF r = "fail" /\ failed = {} THEN i
                                                       ELSE firstFailed
        /\ waitingAtFail' = IF r = "fail" /\ failed = {} /\ pc = "go"
                                THEN chunk ELSE waitingAtFail
        /\ readModes' = IF r = "skip" \/ fault = "open"
                            THEN readModes
                            ELSE readModes \cup {ReadMode(mc)}
        /\ faulted' = IF fault # "none" THEN faulted \cup {i} ELSE faulted
        /\ bytesWritten' = IF r = "ok"
                               THEN bytesWritten + Delivered(mc, i, fault)
                               ELSE bytesWritten
    /\ running' = running \ {i}
    /\ UNCHANGED <<adapter, inputs, pc, noseek, info, w, concurrency, mc, chunk, err,
                   newDst, ctxDone, spawnLog, lateSpawns, opened, calls,
                   obs>>

\* Mutation of WaitDone: Wait does not wait.
WaitDone_NoWait(active) == TRUE

\* errgroup's Wait blocks until every function passed to Go has returned.
WaitDone(active) == active = {}

\* multiThreadCopy line 217: g.Wait returns when every copier has returned;
\* it yields the group's first error and cancels gCtx.
Wait ==
    /\ pc = "wait"
    /\ WaitDone(running)
    /\ err' = gErr
    /\ uploadDone' = TRUE
    /\ pc' = "close"
    /\ UNCHANGED <<adapter, inputs, noseek, info, w, concurrency, mc, chunk, newDst,
                   ctxDone, group, opened, calls,
                   copied, obs>>

\* ---------------------------------------------------- Closing, Finalizing
\* multiThreadCopy lines 218-224: Close is called, then the results of Wait
\* and Close are looked at, in that order.
Close ==
    /\ pc = "close"
    /\ closeCalls' = closeCalls + 1
    /\ \E ce \in {NoErr, Err("writer close")} :
        /\ closeErr' = ce
        /\ err' = AfterClose(err, ce)
        /\ dst' = IF ce = NoErr THEN "committed" ELSE dst
    /\ pc' = IF err' # NoErr THEN "defer" ELSE "newobject"
    /\ UNCHANGED <<adapter, inputs, noseek, info, w, concurrency, mc, chunk, newDst,
                   ctxDone, uploadDone, group, opened, abortCalls,
                   abortFailed, newObjectCalls, setModTimeCalls,
                   copied, openCalls, modTimeResult>>

\* multiThreadCopy lines 226-229.
NewObject ==
    /\ pc = "newobject"
    /\ newObjectCalls' = newObjectCalls + 1
    /\ \/ err' = Err("new object") /\ pc' = "defer"
       \/ err' = err /\ pc' = "setmodtime"
    /\ UNCHANGED <<adapter, inputs, noseek, info, w, concurrency, mc, chunk, newDst,
                   ctxDone, uploadDone, group, opened, closeCalls, closeErr,
                   abortCalls, abortFailed, setModTimeCalls,
                   copied, obs>>

\* The results of obj.SetModTime.
ModTimeResults == {"nil", "ErrorCantSetModTime",
                   "ErrorCantSetModTimeWithoutDelete", "other"}

\* Mutation of ModTimeTolerated: only success is let by.
ModTimeTolerated_OnlyNil(r) == r = "nil"

\* multiThreadCopy lines 233-237: the errors of SetModTime that are let by.
ModTimeTolerated(r) == r # "other"

\* multiThreadCopy lines 231-241.
SetModTime ==
    /\ pc = "setmodtime"
    /\ IF PartialUploads
          THEN /\ setModTimeCalls' = setModTimeCalls + 1
               /\ \E r \in ModTimeResults :
                    /\ modTimeResult' = r
                    /\ IF ModTimeTolerated(r)
                          THEN err' = NoErr /\ newDst' = TRUE
                          ELSE err' = Err("set mod time") /\ newDst' = FALSE
          ELSE /\ setModTimeCalls' = setModTimeCalls
               /\ modTimeResult' = modTimeResult
               /\ err' = NoErr
               /\ newDst' = TRUE
    /\ pc' = "defer"
    /\ UNCHANGED <<adapter, inputs, noseek, info, w, concurrency, mc, chunk, ctxDone,
                   uploadDone, group, opened, closeCalls, closeErr,
                   abortCalls, abortFailed, newObjectCalls,
                   copied, openCalls, dst>>

\* Mutation of Abort: the object is left in place.
Abort_NoRemove(d, lookupOK, removeOK) == d

\* writerAtChunkWriter.Abort lines 313-319: the object is looked up by name
\* and removed; when either step fails the object stays as it is.  A native
\* writer's Abort is taken to clean up or to fail in the same way.
Abort(d, lookupOK, removeOK) ==
    IF lookupOK /\ removeOK THEN "removed" ELSE d

\* multiThreadCopy lines 157-168: the deferred calls on return.  The handler
\* given to atexit.OnError runs when err is set; Abort's own error is only
\* logged.
Deferred ==
    /\ pc = "defer"
    /\ IF AbortWanted(err, info.LeavePartsOnError)
          THEN /\ abortCalls' = abortCalls + 1
               /\ \E lookupOK, removeOK \in BOOLEAN :
                    /\ dst' = Abort(dst, lookupOK, removeOK)
                    /\ abortFailed' = ~(lookupOK /\ removeOK)
          ELSE UNCHANGED <<abortCalls, abortFailed, dst>>
    /\ uploadDone' = TRUE
    /\ pc' = "done"
    /\ UNCHANGED <<adapter, inputs, noseek, info, w, concurrency, mc, chunk, err,
                   newDst, ctxDone, group, opened, closeCalls, closeErr,
                   newObjectCalls, setModTimeCalls,
                   copied, openCalls, modTimeResult>>

\* The caller's ctx (line 130) is cancelled while the copy runs.  Only the
\* spawn loop reads the context (line 208), every backend call already
\* fails or succeeds freely, so the cancellation is modelled while the loop
\* runs.
CancelParent ==
    /\ pc \in {"loop", "go"}
    /\ ~ctxDone
    /\ ctxDone' = TRUE
    /\ UNCHANGED <<adapter, inputs, pc, noseek, info, w, concurrency, mc, chunk, err,
                   newDst, uploadDone, group, opened, calls,
                   copied, obs>>

Next ==
    \/ Dispatch
    \/ ValidateSize
    \/ OpenChunkWriter
    \/ Plan
    \/ LoopCheck
    \/ Go
    \/ \E i \in running : CopyChunk(i)
    \/ Wait
    \/ Close
    \/ NewObject
    \/ SetModTime
    \/ Deferred
    \/ CancelParent

Spec == Init /\ [][Next]_vars

\* The steps of the goroutine that runs multiThreadCopy.
Coordinator ==
    \/ Dispatch
    \/ ValidateSize
    \/ OpenChunkWriter
    \/ Plan
    \/ LoopCheck
    \/ Go
    \/ Wait
    \/ Close
    \/ NewObject
    \/ SetModTime
    \/ Deferred

\* Fair scheduling: the coordinator goroutine and every copier goroutine
\* keep running, and every backend call returns.  The caller need not
\* cancel.
SpecFair ==
    /\ Spec
    /\ WF_vars(Coordinator)
    /\ \A i \in ChunkIds : WF_vars(CopyChunk(i))

\* ------------------------------------- The adapter, one write at a time
\* The state after openChunkWriterFromOpenWriterAt (lines 322-350) returned
\* the adapter for a source of srcSize bytes: no WriteChunk call made yet.
InitAdapter ==
    /\ srcSize \in 1..MaxSize
    /\ dstKind = "writerat"
    /\ streams = 1
    /\ MultiThreadSet = FALSE
    /\ PartialUploads = FALSE
    /\ pc = "plan"
    /\ noseek = NoSeek(dstKind)
    /\ \E chunkSize \in 1..MaxChunkSize,
          writeBufferSize \in WriteBufferSizes :
            /\ w = [size |-> srcSize, chunkSize |-> chunkSize,
                    chunks |-> calculateNumChunks(srcSize, chunkSize),
                    writeBufferSize |-> writeBufferSize]
            /\ info = [ChunkSize |-> chunkSize, Concurrency |-> streams,
                       LeavePartsOnError |-> FALSE]
    /\ concurrency = streams
    /\ mc = NoState
    /\ chunk = 0
    /\ err = NoErr
    /\ newDst = FALSE
    /\ ctxDone = FALSE
    /\ uploadDone = FALSE
    /\ gErr = NoErr
    /\ running = {}
    /\ spawnLog = <<>>
    /\ written = {}
    /\ failed = {}
    /\ firstFailed = -1
    /\ lateSpawns = {}
    /\ waitingAtFail = -1
    /\ opened = TRUE
    /\ closeCalls = 0
    /\ closeErr = NoErr
    /\ abortCalls = 0
    /\ abortFailed = FALSE
    /\ newObjectCalls = 0
    /\ setModTimeCalls = 0
    /\ openCalls = 1
    /\ modTimeResult = ""
    /\ readModes = {}
    /\ faulted = {}
    /\ bytesWritten = 0
    /\ dst = "partial"
    /\ wc = [i \in ChunkIds |-> NoCall]
    /\ writeLog = {}

coordinator == <<inputs, pc, noseek, info, w, concurrency, mc, chunk, err,
                 newDst, ctxDone, uploadDone, group, opened, calls, copied,
                 obs>>

\* Mutation of newOffsetWriter: the chunk number is not scaled.
newOffsetWriter_NoScale(wr, chunkNumber) == chunkNumber

\* WriteChunk line 285 with newOffsetWriter lines 256-258: the offset the
\* offsetWriter of a chunk starts at.
newOffsetWriter(wr, chunkNumber) == chunkNumber * wr.chunkSize

\* offsetWriter.Write lines 259-263 where WriteAt wrote nw bytes: the
\* cursor moves on by nw.
offsetWriterWrite(c, nw) == [c EXCEPT !.off = c.off + nw]

\* The WriteAt call of offsetWriter.Write (line 260) as the log keeps it: nw
\* bytes of chunk i written at the cursor.
WriteAt(log, i, c, nw) ==
    log \cup {<<i, o>> : o \in c.off..(c.off + nw - 1)}

\* The bytes the reader of chunk i delivers at most: one more than
\* expected.
ReaderMax(wr, i) == bytesToWrite(wr, i) + 1

\* WriteChunk lines 278-289: the call for chunk i starts and makes its
\* offsetWriter.
BeginWriteChunk(i) ==
    /\ i \in 0..(w.chunks - 1)
    /\ wc[i].state = "idle"
    /\ wc' = [wc EXCEPT ![i] = [NoCall EXCEPT !.state = "copy",
                                               !.off = newOffsetWriter(w, i)]]
    /\ UNCHANGED <<coordinator, writeLog>>

\* WriteChunk lines 290-293, one round of io.Copy: k bytes are read and
\* written.  Without a buffer they go to offsetWriter.Write; with a buffer
\* they are buffered, and the buffer may pass all it holds on to
\* offsetWriter.Write.  There WriteAt writes all the bytes, or it writes
\* fewer and fails, and WriteChunk returns the error.
CopyStep(i) ==
    /\ wc[i].state = "copy"
    /\ \E k \in 1..(ReaderMax(w, i) - wc[i].n) :
        LET c == wc[i]
            fill == IF w.writeBufferSize > 0 THEN c.buf + k ELSE k
        IN
        \E s \in (IF w.writeBufferSize > 0 THEN {0, fill} ELSE {k}) :
        \E nw \in 0..s :
            LET d == offsetWriterWrite(c, nw) IN
            /\ writeLog' = WriteAt(writeLog, i, c, nw)
            /\ wc' = [wc EXCEPT ![i] =
                        IF nw = s
                            THEN [d EXCEPT !.n = c.n + k, !.buf = fill - s]
                            ELSE [d EXCEPT !.state = "done",
                                           !.buf = 0,
                                           !.copyErr = TRUE,
                                           !.result = WriteChunk(w, i, c.n,
                                                          TRUE, FALSE)]]
    /\ UNCHANGED coordinator

\* WriteChunk lines 290-293: the reader fails, io.Copy returns its error
\* and so does WriteChunk.
ReadFails(i) ==
    /\ wc[i].state = "copy"
    /\ wc' = [wc EXCEPT ![i] =
                [wc[i] EXCEPT !.state = "done",
                              !.buf = 0,
                              !.copyErr = TRUE,
                              !.result = WriteChunk(w, i, wc[i].n, TRUE,
                                                    FALSE)]]
    /\ UNCHANGED <<coordinator, writeLog>>

\* WriteChunk lines 290-304: the reader is at its end and io.Copy returns
\* the count.  On a wrong count the call fails and what the buffer holds is
\* dropped; otherwise the buffer is flushed through offsetWriter.Write,
\* which writes all of it, or fewer bytes and fails.
EndWriteChunk(i) ==
    /\ wc[i].state = "copy"
    /\ LET c == wc[i]
           flush == c.n = bytesToWrite(w, i) /\ w.writeBufferSize > 0
       IN
       \E nw \in (IF flush THEN 0..c.buf ELSE {0}) :
            LET d == offsetWriterWrite(c, nw)
                flushErr == flush /\ nw < c.buf
            IN
            /\ writeLog' = WriteAt(writeLog, i, c, nw)
            /\ wc' = [wc EXCEPT ![i] =
                        [d EXCEPT !.state = "done",
                                  !.buf = 0,
                                  !.flushErr = flushErr,
                                  !.result = WriteChunk(w, i, c.n, FALSE,
                                                        flushErr)]]
    /\ UNCHANGED coordinator

\* The WriteChunk calls of the copiers, in any interleaving.
NextAdapter ==
    \E i \in ChunkIds :
        \/ BeginWriteChunk(i)
        \/ CopyStep(i)
        \/ ReadFails(i)
        \/ EndWriteChunk(i)

SpecAdapter == InitAdapter /\ [][NextAdapter]_vars

\* ================================================================ claims
\* The planner has run: info, concurrency and mc hold their final values.
Planned == opened /\ pc \notin {"open", "plan"}

\* multiThreadCopy has returned.
Returned == pc = "done"

AllChunks == 0..(mc.numChunks - 1)

\* C1: when the invocation has returned after the writer was opened and at
\* least one chunk copier returned an error, Abort was called exactly once
\* if LeavePartsOnError is false and not at all if it is true, however many
\* copiers failed.
C1_AbortExactlyOnce ==
    (Returned /\ opened /\ failed # {}) =>
        abortCalls = (IF info.LeavePartsOnError THEN 0 ELSE 1)

\* C1 witness: two copiers failed and Abort was called once.
C1_Witness ==
    /\ Returned /\ Cardinality(failed) >= 2
    /\ ~info.LeavePartsOnError /\ abortCalls = 1

\* C2: when a chunk copier failed, the error returned is the error of the
\* copier that failed first, whatever Close, Abort and later copiers return.
C2_FirstChunkErrorReturned ==
    (Returned /\ failed # {}) => err = ChunkErr(firstFailed)

\* C2 witness: chunk 1 failed first, chunk 0 failed later, Close and Abort
\* both failed, and the error returned is that of chunk 1.
C2_Witness ==
    /\ Returned /\ firstFailed = 1 /\ 0 \in failed
    /\ closeErr # NoErr /\ abortFailed
    /\ err = ChunkErr(1)

\* C3: an object is returned only if WriteChunk succeeded for every chunk
\* index of [0, numChunks), Close was called and succeeded, NewObject
\* succeeded and Abort was never called.
C3_AllOrNothing ==
    (Returned /\ newDst) =>
        /\ written = AllChunks
        /\ closeCalls = 1 /\ closeErr = NoErr
        /\ newObjectCalls = 1
        /\ abortCalls = 0

\* C4: if no chunk copier failed and Close returned an error, the result is
\* an error and no object, and NewObject was not called.
C4_CloseFailureIsFatal ==
    (Returned /\ failed = {} /\ closeErr # NoErr) =>
        /\ err # NoErr
        /\ ~newDst
        /\ newObjectCalls = 0

\* C4 witness: every chunk was written, Close failed, its error is returned.
C4_Witness ==
    /\ Returned /\ mc.numChunks >= 2 /\ written = AllChunks
    /\ closeErr # NoErr /\ err = Err("close") /\ ~newDst

\* C5 as stated: once a chunk copier has returned an error no further chunk
\* copier is started, the chunk g.Go was waiting to start included.
C5_NoSpawnAfterFailure == lateSpawns = {}

\* C5 amended: after the first chunk failure the spawn loop starts at most
\* one more copier, the one g.Go was already waiting to start when the
\* failure happened; a loop iteration begun after the failure starts none.
C5_OnlyPendingSpawnAfterFailure ==
    /\ lateSpawns \subseteq {waitingAtFail}
    /\ (pc = "go" /\ failed # {}) => chunk = waitingAtFail

\* C5 witness: chunk 0 failed while g.Go waited to start chunk 1; chunk 1
\* was started all the same, chunk 2 never was.
C5_Witness ==
    /\ Returned /\ mc.numChunks >= 3
    /\ firstFailed = 0 /\ lateSpawns = {1} /\ spawnLog = <<0, 1>>

\* C6: the copiers started and not yet returned never outnumber the planned
\* concurrency, and every chunk index of [0, numChunks) is handed to g.Go at
\* most once.
C6_BoundedPoolAndSingleSpawn ==
    /\ Cardinality(running) <= concurrency
    /\ \A j, k \in 1..Len(spawnLog) : spawnLog[j] = spawnLog[k] => j = k
    /\ \A j \in 1..Len(spawnLog) : spawnLog[j] \in AllChunks

\* C6 witness: the pool is full with two copiers and g.Go waits with a
\* third chunk.
C6_Witness ==
    /\ pc = "go" /\ concurrency = 2 /\ Cardinality(running) = 2
    /\ chunk < mc.numChunks

\* C7: the planned concurrency lies in 1..numChunks.
C7_ConcurrencyWithinChunks ==
    Planned => (1 <= concurrency /\ concurrency <= mc.numChunks)

\* C8: when the stream count was not set explicitly, the planned
\* concurrency is the backend's, floored at 1.
C8_ImplicitUsesBackend ==
    (Planned /\ ~MultiThreadSet) =>
        concurrency = (IF info.Concurrency >= 1 THEN info.Concurrency ELSE 1)

\* C8 witness: an implicit request of 3 streams for 2 chunks is replaced by
\* the backend's smaller preference of 1.
C8_Witness ==
    /\ Planned /\ ~MultiThreadSet /\ streams = 3 /\ mc.numChunks = 2
    /\ info.Concurrency = 1 /\ concurrency = 1

\* C9: when the stream count was set explicitly and the backend's
\* concurrency is not larger than the requested one, the planned
\* concurrency is min(requested, numChunks), floored at 1.
C9_ExplicitKeptUnlessBackendLarger ==
    (Planned /\ MultiThreadSet /\ info.Concurrency <= streams) =>
        concurrency = (IF Min(streams, mc.numChunks) >= 1
                          THEN Min(streams, mc.numChunks) ELSE 1)

\* The bytes of the source that copyChunk reads for chunk i.
ChunkRange(i) ==
    {b \in 0..(mc.size - 1) : ChunkStart(mc, i) <= b /\ b < ChunkEnd(mc, i)}

\* numChunks chunks of chunkSize bytes cover size bytes, one fewer does not.
CeilProperty(size, chunkSize, numChunks) ==
    /\ numChunks * chunkSize >= size
    /\ (numChunks - 1) * chunkSize < size

\* C10: the chunk counts computed by calculateNumChunks, for the copy state
\* and for the adapter, satisfy numChunks*chunkSize >= size and
\* (numChunks-1)*chunkSize < size, and the ranges of copyChunk are
\* non-empty, contiguous, disjoint and cover exactly [0, size).  The copy
\* state and the adapter do not change once planned, so the property is
\* evaluated each time the spawn loop is at its head.
C10_ChunkRangesPartitionSource ==
    pc = "loop" =>
        /\ CeilProperty(mc.size, mc.partSize, mc.numChunks)
        /\ dstKind = "writerat" => CeilProperty(w.size, w.chunkSize, w.chunks)
        /\ \A i \in AllChunks :
            /\ ChunkRange(i) # {}
            /\ ChunkStart(mc, i) = (IF i = 0 THEN 0 ELSE ChunkEnd(mc, i - 1))
            /\ \A j \in AllChunks : i # j => ChunkRange(i) \cap ChunkRange(j) = {}
        /\ UNION {ChunkRange(i) : i \in AllChunks} = 0..(mc.size - 1)
        /\ ChunkEnd(mc, mc.numChunks - 1) = mc.size

\* C10 witness: 3 bytes in chunks of 2 give the ranges [0,2) and [2,3).
C10_Witness ==
    /\ Planned /\ mc.size = 3 /\ mc.partSize = 2 /\ mc.numChunks = 2
    /\ ChunkRange(0) = {0, 1} /\ ChunkRange(1) = {2}

\* C11: for a source of unknown (negative) or zero size the chunk writer is
\* never opened, no chunk copier is started, neither Close nor Abort is
\* called, and the invocation returns an error and no object.
C11_InvalidSizeRejected ==
    srcSize <= 0 =>
        /\ openCalls = 0 /\ ~opened
        /\ spawnLog = <<>> /\ running = {}
        /\ closeCalls = 0 /\ abortCalls = 0
        /\ Returned => (err # NoErr /\ ~newDst)

\* C11 witness: a zero sized source on a destination that can be written
\* was rejected with the zero size error.
C11_Witness ==
    /\ Returned /\ srcSize = 0 /\ dstKind = "writerat"
    /\ err = Err("zero size") /\ openCalls = 0

\* C12: Close is called only when every chunk copier succeeded, so an
\* invocation that opened the writer runs exactly one of Close and Abort.
C12_CloseOnlyOnSuccess ==
    /\ failed # {} => closeCalls = 0
    /\ (Returned /\ opened) => closeCalls + abortCalls = 1

\* C13: on the adapter path a copier that meets no I/O fault delivers to
\* WriteChunk exactly the bytes WriteChunk expects for its index, also when
\* the configured chunk size is larger than the source, so it never fails;
\* and when every chunk is written the byte counts returned sum to the
\* source size.
C13_AdapterCountsAgree ==
    (dstKind = "writerat" /\ Planned) =>
        /\ \A i \in AllChunks : ChunkBytes(mc, i) = bytesToWrite(w, i)
        /\ failed \subseteq faulted
        /\ written = AllChunks => bytesWritten = srcSize

\* C13 witness: a source of 2 bytes copied through an adapter configured
\* with chunks of 3 bytes, in one chunk of 2 bytes.
C13_Witness ==
    /\ Returned /\ dstKind = "writerat" /\ newDst
    /\ srcSize = 2 /\ w.chunkSize = 3 /\ mc.partSize = 2
    /\ written = {0} /\ bytesWritten = 2

\* C14 as stated: the copiers read directly for a native chunk writer and
\* through the buffer for the adapter made from OpenWriterAt.
C14_DirectForNative ==
    readModes \subseteq
        {IF dstKind = "chunkwriter" THEN "direct" ELSE "buffered"}

\* C14 amended: the copiers read directly (non-seekable, unbuffered) when
\* the chunk writer is the adapter made from OpenWriterAt, and through the
\* buffer (seekable, read in full before the write) for a native chunk
\* writer.
C14_DirectForAdapter ==
    readModes \subseteq
        {IF dstKind = "writerat" THEN "direct" ELSE "buffered"}

\* C14 witness: a copier read through the buffer for a native chunk writer.
C14_Witness ==
    /\ dstKind = "chunkwriter" /\ readModes = {"buffered"} /\ written # {}

\* The post-close lookup was made and succeeded.
ObjectFound == newObjectCalls = 1 /\ err # Err("new object")

\* C17: once Close has succeeded, a failed NewObject makes the invocation
\* fail; SetModTime is called exactly when NewObject succeeded and the
\* destination has PartialUploads; and an object is returned exactly when
\* SetModTime was not called, or returned no error, ErrorCantSetModTime or
\* ErrorCantSetModTimeWithoutDelete.
C17_Finalizing ==
    (Returned /\ newObjectCalls = 1) =>
        /\ ~ObjectFound => (~newDst /\ setModTimeCalls = 0)
        /\ setModTimeCalls = (IF ObjectFound /\ PartialUploads THEN 1 ELSE 0)
        /\ ObjectFound =>
            (newDst <=> (setModTimeCalls = 0 \/
                         modTimeResult \in {"nil", "ErrorCantSetModTime",
                                   "ErrorCantSetModTimeWithoutDelete"}))
        /\ newDst <=> err = NoErr

\* C17 witness: SetModTime returned ErrorCantSetModTimeWithoutDelete and the
\* object is returned all the same.
C17_Witness ==
    /\ Returned /\ PartialUploads /\ setModTimeCalls = 1
    /\ modTimeResult = "ErrorCantSetModTimeWithoutDelete" /\ newDst

\* C18: Close is called only when every copier started has returned, no
\* copier runs during or after Close, Abort is called only after Close, and
\* the invocation returns with no copier running.
C18_WaitsForPool ==
    /\ pc \in {"close", "newobject", "setmodtime", "defer", "done"} =>
            running = {}
    /\ closeCalls > 0 => running = {}
    /\ abortCalls > 0 => closeCalls = 1

\* C18 witness: a copier failed, the loop is over, and the coordinator
\* waits in g.Wait for a copier that still runs.
C18_Witness ==
    /\ pc = "wait" /\ failed # {} /\ running # {} /\ closeCalls = 0

\* C19: under fair scheduling every invocation returns.
C19_Terminates == <>Returned

\* C19 witness: an invocation has returned in which a chunk failed while
\* g.Go waited for the one pool slot.
C19_Witness ==
    /\ Returned /\ waitingAtFail >= 0 /\ err # NoErr
    /\ concurrency = 1 /\ mc.numChunks >= 2

\* C20: after the writer was opened, Abort is called exactly once when the
\* invocation returns an error and LeavePartsOnError is not set, whatever
\* failed (a chunk, Close, NewObject or SetModTime), and never otherwise; on
\* the adapter path an Abort that succeeds leaves the object removed, also
\* when Close had committed it.
C20_AbortOnAnyError ==
    (Returned /\ opened) =>
        /\ abortCalls = (IF err # NoErr /\ ~info.LeavePartsOnError
                            THEN 1 ELSE 0)
        /\ (dstKind = "writerat" /\ abortCalls = 1 /\ ~abortFailed) =>
                dst = "removed"

\* C20 witness: on the adapter path every chunk was written and Close
\* succeeded, NewObject failed, and Abort removed the committed object.
C20_Witness ==
    /\ Returned /\ dstKind = "writerat" /\ written = AllChunks
    /\ closeCalls = 1 /\ closeErr = NoErr /\ err = Err("new object")
    /\ abortCalls = 1 /\ dst = "removed"

\* --------------------------------------------------- claims on the adapter
\* The byte offsets chunk i has written.
OffsetsOf(i) == {e[2] : e \in {x \in writeLog : x[1] = i}}

\* Every WriteChunk call of the transfer has returned success.
AllWritten == \A i \in 0..(w.chunks - 1) :
                  wc[i].state = "done" /\ wc[i].result >= 0

\* C15: a WriteChunk call of the adapter that returned success copied the
\* expected count, chunkSize or, for the last chunk when size is no
\* multiple of chunkSize, size mod chunkSize; and a call that copied
\* another count, fewer or more, or whose read, write or flush failed,
\* returned an error.
C15_CountChecked ==
    \A i \in 0..(w.chunks - 1) :
        LET c == wc[i]
            expected == IF i = w.chunks - 1 /\ w.size % w.chunkSize # 0
                            THEN w.size % w.chunkSize
                            ELSE w.chunkSize
        IN c.state = "done" =>
            /\ c.result >= 0 => (c.result = expected /\ c.n = expected)
            /\ c.n # expected => c.result = -1
            /\ (c.copyErr \/ c.flushErr) => c.result = -1

\* C15 witness: with a buffer, the last, shorter chunk returned success
\* with size mod chunkSize bytes, and the call of the full chunk before it
\* failed on a reader that delivered one byte more than chunkSize.
C15_Witness ==
    /\ w.chunks = 2 /\ w.size % w.chunkSize # 0 /\ w.writeBufferSize > 0
    /\ wc[1].state = "done" /\ wc[1].result = w.size % w.chunkSize
    /\ wc[0].state = "done" /\ wc[0].result = -1
    /\ wc[0].n = w.chunkSize + 1 /\ ~wc[0].copyErr

\* C16, the writes: what chunk i has written is the range from
\* i*chunkSize up to its cursor, so every write landed at i*chunkSize plus
\* the bytes of the chunk written before; and when every call has returned
\* success no offset was written by two chunks and none at or after size.
C16_Landing ==
    /\ \A i \in 0..(w.chunks - 1) :
          wc[i].state # "idle" =>
              OffsetsOf(i) = (i * w.chunkSize)..(wc[i].off - 1)
    /\ AllWritten =>
          /\ \A i, j \in 0..(w.chunks - 1) :
                i # j => OffsetsOf(i) \cap OffsetsOf(j) = {}
          /\ \A i \in 0..(w.chunks - 1) : \A o \in OffsetsOf(i) : o < w.size

\* C16, the cursor: the cursor of a chunk never moves back.
C16_CursorAdvances ==
    \A i \in ChunkIds : wc[i].state # "idle" => wc'[i].off >= wc[i].off

\* C16: on the adapter every write of chunk i lands at i*chunkSize plus the
\* bytes of chunk i already written, the cursor of a chunk only advances,
\* and in a transfer whose WriteChunk calls all succeed, however they
\* interleave, no offset is written by two chunks and none at or after
\* size.
C16_DisjointWrites == []C16_Landing /\ [][C16_CursorAdvances]_vars

\* C16 witness: both calls returned success, one for a full chunk and one
\* for the shorter last chunk, and every byte of the destination was
\* written by one of them.
C16_Witness ==
    /\ AllWritten /\ w.chunks = 2 /\ w.size = 3 /\ w.chunkSize = 2
    /\ writeLog = {<<0, 0>>, <<0, 1>>, <<1, 2>>}

====
